---------------------------- MODULE Spec2Model ----------------------------
(***************************************************************************)
(* A model of the dryrun run orchestrator: AgentRunner.run / stop          *)
(* (packages/server/src/services/agent/runner.ts), the run endpoints of    *)
(* packages/server/src/routes/runs.ts that drive it, the run rows of the   *)
(* database module and the BrowserService handle the runner owns.          *)
(*                                                                         *)
(* run() is an async function: the code between two awaits runs without    *)
(* interleaving, so every action below is one such stretch, named after    *)
(* the await whose completion starts it.  pc[r] is the await run r is      *)
(* suspended at.                                                           *)
(***************************************************************************)
EXTENDS Integers, Sequences, FiniteSets, TLC

\* runner.ts:25
MAX_STEPS == 50

\* Model bounds: how many runs are created, the largest persona threshold
\* (constraints.maxFrictionPoints) tried, and the loop iterations followed in
\* the specification with several runs.
MaxRuns == 2
MaxThreshold == 2
SharedSteps == 2
\* ... and, in the specification with stream observers, the observers and the
\* loop iterations followed.
MaxObservers == 2
HubSteps == 1
\* ... and how often the severity weighting is applied in a row.
MaxWeighings == 3
\* ... and the detector calls followed in the specification of the pattern
\* detector.
MaxDetectorSteps == 3

Runs == 1..MaxRuns
Observers == 1..MaxObservers

VARIABLES
  \* the runs table (db): status, summary_json, and the run's rows of
  \* friction_points and of 'abandoned' events
  dbStatus, dbSummary, frictionRows, abandonedEvents,
  \* AgentRunner fields
  isRunning, shouldStop, interactionTracker,
  \* BrowserService handles
  browser,
  \* run(): its position and locals, one activation per run
  pc, stepCount, frictionCount, goalReached, abandonReason, decision, threw,
  maxFrictionPoints,
  \* the complete / error broadcasts of the route's callbacks, in order
  emitted,
  \* history: the terminal statuses written to the run row, whether the stop
  \* endpoint was called for the run, the state of the run when stop() was
  \* first called during it, whether close() was called, and what the run has
  \* seen so far
  statusWrites, stopRequested, stopInfo, closeCalled, observed,
  \* routes/runs.ts: the runEventStreams map, the pending teardown timers, and
  \* for every SSE response what became of it and what was written to it
  runEventStreams, teardownPending, observer, received,
  \* the events and friction_points tables as GET /:id/stream reads them: the
  \* records of each run in the order they were inserted, kept on a server
  \* whose stream endpoint has clients
  dbRecords, streamClients,
  \* the events table: the 'error' events of each run
  errorEvents,
  \* calculateWeightedSeverity: the severity and category of a friction
  \* assessment, the persona's priorities, the severity after weighCount
  \* applications
  baseSeverity, category, priorities, weightedSeverity, weighCount,
  \* detectInteractionPattern: the tracker in full, the events of the run, the
  \* decision and the label of the last call, the calls made, how often a
  \* click on each target was decided, the decisions of the run so far, and
  \* the decisions of the earlier runs of the same runner
  tracker, events, detectorDecision, detectedPattern, detectorSteps, clicksDecided,
  decided, pastDecided,
  \* the friction branch of a step: the oracle's frictionAssessment, how far
  \* the branch has come, the FrictionPoint row written and the FrictionPoint
  \* handed to onFriction
  assessment, frictionStage, frictionPoint, frictionSent,
  \* createCustomArchetype: the focusAreas of the input and the priorities of
  \* the archetype returned
  focusInput, customPriorities

dbVars == <<dbStatus, dbSummary, frictionRows, abandonedEvents>>
runnerVars == <<isRunning, shouldStop, interactionTracker>>
localVars == <<stepCount, frictionCount, goalReached, abandonReason, decision, threw,
               maxFrictionPoints>>
historyVars == <<statusWrites, stopRequested, stopInfo, closeCalled, observed>>
\* What a stretch of run() without a record and without a broadcast leaves
\* alone.
hubVars == <<runEventStreams, teardownPending, observer, received, dbRecords>>
weighVars == <<baseSeverity, category, priorities, weightedSeverity, weighCount>>
\* What run() and the endpoints leave alone in the specifications of the
\* lifecycle.
detectorVars == <<tracker, events, detectorDecision, detectedPattern, detectorSteps,
                  clicksDecided, decided, pastDecided>>
frictionVars == <<assessment, frictionStage, frictionPoint, frictionSent>>
customVars == <<focusInput, customPriorities>>
auxVars == <<weighVars, detectorVars, frictionVars, customVars, streamClients>>
serverVars == <<dbVars, runnerVars, browser, pc, localVars, emitted, historyVars, hubVars,
                errorEvents>>
vars == <<serverVars, auxVars>>

NoDecision == [type |-> "none", friction |-> FALSE, target |-> FALSE]
NoSummary == [written |-> FALSE]
NoStop == [called |-> FALSE]
NoTracker == [run |-> 0, touched |-> FALSE]
NoStreams == [present |-> FALSE, obs |-> {}]
NoObserver == [run |-> 0, status |-> "none", beforeComplete |-> FALSE,
               afterTeardown |-> FALSE, snapshot |-> <<>>]

TerminalStatuses == {"completed", "failed", "stopped"}

\* LLMDecision as far as run() reads it: action.type, whether
\* frictionAssessment.detected, whether action.target (and value) are present.
ActionTypes == {"click", "type", "scroll", "navigate", "done", "stuck", "other"}
TargetTypes == {"click", "type", "navigate"}
Decisions ==
  {[type |-> t, friction |-> f, target |-> g] :
      t \in ActionTypes, f \in BOOLEAN, g \in BOOLEAN}
  \ {d \in [type : ActionTypes, friction : BOOLEAN, target : BOOLEAN] :
      d.target /\ d.type \notin TargetTypes}

\* What parseDecision returns for a response it cannot parse.
ParseFailure == [type |-> "stuck", friction |-> FALSE, target |-> FALSE]

\* The awaits of run() at which the runner holds isRunning.
InLoopPhases == {"launch", "navigate", "navShot", "pageState", "shot64", "deciding",
                 "frictionShot", "doneShot", "stuckShot", "acting", "actShot", "delay",
                 "closing"}
\* ... those inside a loop iteration ...
StepPhases == {"pageState", "shot64", "deciding", "frictionShot", "doneShot", "stuckShot",
               "acting", "actShot", "delay"}
\* ... and those after browser.close() was called.
PostClosePhases == {"closing", "recommending", "done", "aborted"}
InFlight == InLoopPhases \cup {"recommending"}

\* FrictionCategory and the 1-5 scale of ArchetypePriorities (shared types).
Categories == {"navigation", "forms", "contentClarity", "visualDesign", "performance",
               "accessibility"}
Severities == {"low", "medium", "high"}
Priorities == 1..5

\* No friction point is being weighted: a medium assessment of content
\* clarity under neutral priorities.
NoWeighing ==
  /\ baseSeverity = "medium"
  /\ category = "contentClarity"
  /\ priorities = [c \in Categories |-> 3]
  /\ weightedSeverity = "medium"
  /\ weighCount = 0

\* The targets the oracle names: of clicks, of type actions, and URLs.
ClickTargets == {"Submit", "Next", "Menu"}
TypeTargets == {"Email"}
NavTargets == {"/start", "/cart"}
StartUrl == "/start"

\* createFreshTracker()
createFreshTracker ==
  [clickTargets |-> [t \in ClickTargets |-> 0],
   navigationHistory |-> <<>>,
   scrollCount |-> 0,
   scrollDirection |-> "null",
   lastFormField |-> "null",
   formStarted |-> FALSE]

NoDetectorDecision == [type |-> "none", target |-> "none"]

\* The detector was not called yet.
NoDetection ==
  /\ tracker = createFreshTracker
  /\ events = <<>>
  /\ detectorDecision = NoDetectorDecision
  /\ detectedPattern = "null"
  /\ detectorSteps = 0
  /\ clicksDecided = [t \in ClickTargets |-> 0]
  /\ decided = <<>>
  /\ pastDecided = <<>>

NoAssessment ==
  [detected |-> FALSE, pattern |-> "none", severity |-> "none", category |-> "none"]
NoFrictionPoint == [present |-> FALSE]

\* No friction branch is being followed.
NoFrictionBranch ==
  /\ assessment = NoAssessment
  /\ frictionStage = "none"
  /\ frictionPoint = NoFrictionPoint
  /\ frictionSent = NoFrictionPoint

\* No custom persona is being synthesized.
NoSynthesis ==
  /\ focusInput = [given |-> FALSE, areas |-> <<>>]
  /\ customPriorities = [c \in Categories |-> 0]

\* The server after start-up: no run row, the runner of getRunner idle.
ServerInit ==
  /\ dbStatus = [r \in Runs |-> "none"]
  /\ dbSummary = [r \in Runs |-> NoSummary]
  /\ frictionRows = [r \in Runs |-> 0]
  /\ abandonedEvents = [r \in Runs |-> <<>>]
  /\ isRunning = FALSE
  /\ shouldStop = FALSE
  /\ interactionTracker = NoTracker
  /\ browser = "none"
  /\ pc = [r \in Runs |-> "idle"]
  /\ stepCount = [r \in Runs |-> 0]
  /\ frictionCount = [r \in Runs |-> 0]
  /\ goalReached = [r \in Runs |-> FALSE]
  /\ abandonReason = [r \in Runs |-> "none"]
  /\ decision = [r \in Runs |-> NoDecision]
  /\ threw = [r \in Runs |-> FALSE]
  /\ maxFrictionPoints = [r \in Runs |-> 0]
  /\ emitted = [r \in Runs |-> <<>>]
  /\ statusWrites = [r \in Runs |-> <<>>]
  /\ stopRequested = [r \in Runs |-> FALSE]
  /\ stopInfo = [r \in Runs |-> NoStop]
  /\ closeCalled = [r \in Runs |-> FALSE]
  /\ observed = [r \in Runs |-> {}]
  /\ runEventStreams = [r \in Runs |-> NoStreams]
  /\ teardownPending = [r \in Runs |-> FALSE]
  /\ observer = [o \in Observers |-> NoObserver]
  /\ received = [o \in Observers |-> <<>>]
  /\ errorEvents = [r \in Runs |-> 0]
  /\ dbRecords = [r \in Runs |-> <<>>]

Init ==
  /\ ServerInit /\ NoWeighing /\ NoDetection /\ NoFrictionBranch /\ NoSynthesis
  /\ streamClients = FALSE

\* The same server with clients of the stream endpoint.
InitHub ==
  /\ ServerInit /\ NoWeighing /\ NoDetection /\ NoFrictionBranch /\ NoSynthesis
  /\ streamClients = TRUE

----------------------------------------------------------------------------
\* The db module: updateRunStatus (UPDATE runs SET status = ?, completed_at = ?)
\* and updateRunSummary.  statusWrites keeps every terminal status written.
updateRunStatus(r, status) ==
  /\ dbStatus' = [dbStatus EXCEPT ![r] = status]
  /\ statusWrites' = [statusWrites EXCEPT
                        ![r] = IF status \in TerminalStatuses THEN Append(@, status) ELSE @]

Summary(r, recs) ==
  [written |-> TRUE,
   stepsCompleted |-> stepCount[r],
   goalReached |-> goalReached[r],
   abandonReason |-> abandonReason[r],
   frictionPointCount |-> frictionCount[r],
   recommendations |-> recs]

\* How llm.generateRecommendations ends: with the list parsed from the
\* response (of any length), with its own generic recommendation for a
\* response it cannot parse, or by throwing.
RecommendationOutcomes == {"parsed0", "parsed1", "parsed2", "unparseable", "threw"}

\* A finally block that leaves the list empty when the call throws.
Recommendations_EmptyOnFailure(outcome) ==
  CASE outcome = "threw" -> [generic |-> FALSE, count |-> 0]
    [] outcome = "unparseable" -> [generic |-> TRUE, count |-> 1]
    [] outcome = "parsed0" -> [generic |-> FALSE, count |-> 0]
    [] outcome = "parsed1" -> [generic |-> FALSE, count |-> 1]
    [] outcome = "parsed2" -> [generic |-> FALSE, count |-> 2]

\* The recommendations of the summary: how many, and whether they are a
\* generic substitute (runner.ts:264-286, gemini.ts:247-281).
Recommendations(outcome) ==
  CASE outcome = "threw" -> [generic |-> TRUE, count |-> 1]
    [] outcome = "unparseable" -> [generic |-> TRUE, count |-> 1]
    [] outcome = "parsed0" -> [generic |-> FALSE, count |-> 0]
    [] outcome = "parsed1" -> [generic |-> FALSE, count |-> 1]
    [] outcome = "parsed2" -> [generic |-> FALSE, count |-> 2]

\* The status run() finalizes with (runner.ts:300).
FinalStatus(r) ==
  IF shouldStop THEN "stopped" ELSE IF goalReached[r] THEN "completed" ELSE "failed"

----------------------------------------------------------------------------
\* Control of run(): every fragment sets pc and the locals that decide where
\* the run goes next.
Ctl(r, p, step, goal, reason, evs, thr, closed, dec) ==
  /\ pc' = [pc EXCEPT ![r] = p]
  /\ decision' = [decision EXCEPT ![r] = dec]
  /\ stepCount' = [stepCount EXCEPT ![r] = step]
  /\ goalReached' = [goalReached EXCEPT ![r] = goal]
  /\ abandonReason' = [abandonReason EXCEPT ![r] = reason]
  /\ abandonedEvents' = [abandonedEvents EXCEPT ![r] = evs]
  /\ threw' = [threw EXCEPT ![r] = thr]
  /\ closeCalled' = [closeCalled EXCEPT ![r] = closed]

\* Suspend at the next await, the step's decision being d.
GotoWith(r, p, d) ==
  Ctl(r, p, stepCount[r], goalReached[r], abandonReason[r], abandonedEvents[r],
      threw[r], closeCalled[r], d)

Goto(r, p) == GotoWith(r, p, decision[r])

\* The ceiling check with > for >=.
CeilingHit_OffByOne(r, goal) == stepCount[r] > MAX_STEPS /\ ~goal

\* The ceiling check without the goal flag.
CeilingHit_IgnoresGoal(r, goal) == stepCount[r] >= MAX_STEPS

\* runner.ts:247
CeilingHit(r, goal) == stepCount[r] >= MAX_STEPS /\ ~goal

\* break: the code after the loop (the step-ceiling check), then the finally
\* block up to its first await, browser.close().
Break(r, reason, evs, goal) ==
  Ctl(r, "closing", stepCount[r], goal,
      IF CeilingHit(r, goal) THEN "maxSteps" ELSE reason,
      IF CeilingHit(r, goal) THEN Append(evs, "maxSteps") ELSE evs,
      threw[r], TRUE, NoDecision)

\* An exception that skips the release of the browser.
Raise_SkipsClose(r) ==
  Ctl(r, "recommending", stepCount[r], goalReached[r], abandonReason[r],
      abandonedEvents[r], TRUE, FALSE, NoDecision)

\* An exception leaves the try block: straight to the finally block.
Raise(r) ==
  Ctl(r, "closing", stepCount[r], goalReached[r], abandonReason[r], abandonedEvents[r],
      TRUE, TRUE, NoDecision)

\* The loop condition without the stop flag, and with <= for <.
LoopCondition_IgnoresStop(r) == stepCount[r] < MAX_STEPS

LoopCondition_OffByOne(r) == stepCount[r] <= MAX_STEPS /\ ~shouldStop

\* runner.ts:102
LoopCondition(r) == stepCount[r] < MAX_STEPS /\ ~shouldStop

\* The loop boundary: stepCount++ and the call of getPageState(), or the exit.
NextIteration(r) ==
  IF LoopCondition(r)
    THEN Ctl(r, "pageState", stepCount[r] + 1, goalReached[r], abandonReason[r],
             abandonedEvents[r], threw[r], closeCalled[r], NoDecision)
    ELSE Break(r, abandonReason[r], abandonedEvents[r], goalReached[r])

Observe(r, tags) == observed' = [observed EXCEPT ![r] = @ \cup tags]

----------------------------------------------------------------------------
\* routes/runs.ts: the stream hub.

\* A message as broadcastToRun writes it: its type, and which record of which
\* step it carries.
Msg(r, type, kind) == [type |-> type, kind |-> kind, step |-> stepCount[r]]

EventMsg(r, kind) == Msg(r, "event", kind)

\* The 'abandoned' event of the step ceiling, created after the loop.
CeilingMsgs(r, goal) ==
  IF CeilingHit(r, goal) THEN <<EventMsg(r, "maxSteps")>> ELSE <<>>

\* What leaving the loop at its condition broadcasts.
LoopExitMsgs(r) ==
  IF LoopCondition(r) THEN <<>> ELSE CeilingMsgs(r, goalReached[r])

\* The writes of one observer, last message first.
Written_Reversed(msgs, k) == [i \in 1..k |-> msgs[k + 1 - i]]

\* The writes of one observer: the first k messages reach it, the write after
\* them, if there is one, throws.
Written(msgs, k) == SubSeq(msgs, 1, k)

\* A broadcast that leaves a response whose write threw in the set.
Broadcast_KeepsFailed(r, msgs) ==
  LET S == runEventStreams[r].obs
  IN \E k \in [S -> 0..Len(msgs)] :
       /\ received' = [o \in Observers |->
                         IF o \in S THEN received[o] \o Written(msgs, k[o])
                                    ELSE received[o]]
       /\ UNCHANGED runEventStreams
       /\ observer' = [o \in Observers |->
                         IF o \in S /\ k[o] < Len(msgs)
                           THEN [observer[o] EXCEPT !.status = "dropped"]
                           ELSE observer[o]]

\* broadcastToRun for the messages of one stretch of run(), in order: every
\* message is written to every response still in the run's set; a response
\* whose write throws is deleted from the set.
Broadcast(r, msgs) ==
  LET S == runEventStreams[r].obs
  IN \E k \in [S -> 0..Len(msgs)] :
       /\ received' = [o \in Observers |->
                         IF o \in S THEN received[o] \o Written(msgs, k[o])
                                    ELSE received[o]]
       /\ runEventStreams' = [runEventStreams EXCEPT
                                ![r].obs = {o \in S : k[o] = Len(msgs)}]
       /\ observer' = [o \in Observers |->
                         IF o \in S /\ k[o] < Len(msgs)
                           THEN [observer[o] EXCEPT !.status = "dropped"]
                           ELSE observer[o]]

\* createEvent / createFrictionPoint for the records among msgs.
Persist(r, msgs) ==
  LET IsRecord(m) == m.type \in {"event", "friction"}
  IN dbRecords' = [dbRecords EXCEPT
                     ![r] = IF streamClients THEN @ \o SelectSeq(msgs, IsRecord) ELSE @]

\* The records of one stretch of run(): each is inserted, then handed to its
\* callback, which broadcasts it.  No timer is started.
Emit(r, msgs) == Persist(r, msgs) /\ Broadcast(r, msgs) /\ UNCHANGED teardownPending

\* An init message with the events of the run only.
Snapshot_EventsOnly(r) ==
  LET IsEvent(m) == m.type = "event" IN SelectSeq(dbRecords[r], IsEvent)

\* getEventsByRunId and getFrictionPointsByRunId, as the init message carries
\* them.
Snapshot(r) == dbRecords[r]

\* POST /: runEventStreams.set(run.id, new Set())
NewStreams(r) ==
  /\ runEventStreams' = [runEventStreams EXCEPT ![r] = [present |-> TRUE, obs |-> {}]]
  /\ UNCHANGED <<teardownPending, observer, received, dbRecords>>

\* onComplete, and the .catch of the route when run() rejects after it.
CompleteMsgs(r) ==
  IF threw[r] THEN <<Msg(r, "complete", "complete"), Msg(r, "error", "runError")>>
              ELSE <<Msg(r, "complete", "complete")>>

CompleteBroadcast(r) == \E i \in 1..Len(emitted[r]) : emitted[r][i] = "complete"

\* A stream endpoint that writes init without registering the response.
Attach_NotRegistered(o, r) ==
  /\ UNCHANGED auxVars
  /\ streamClients
  /\ observer[o].status = "none"
  /\ dbStatus[r] # "none"
  /\ received' = [received EXCEPT ![o] = <<Msg(r, "init", "init")>>]
  /\ observer' = [observer EXCEPT
                    ![o] = [run |-> r, status |-> "attached",
                            beforeComplete |-> ~CompleteBroadcast(r),
                            afterTeardown |-> CompleteBroadcast(r) /\ ~teardownPending[r],
                            snapshot |-> Snapshot(r)]]
  /\ UNCHANGED <<dbVars, runnerVars, browser, pc, localVars, emitted, historyVars,
                 runEventStreams, teardownPending, errorEvents, dbRecords>>

\* GET /:id/stream: 404 without the run row; the response is added to the
\* run's set (a new set when the map has none) and the init message is
\* written to it.
Attach(o, r) ==
  /\ UNCHANGED auxVars
  /\ streamClients
  /\ observer[o].status = "none"
  /\ dbStatus[r] # "none"
  /\ runEventStreams' = [runEventStreams EXCEPT
                           ![r] = [present |-> TRUE, obs |-> @.obs \cup {o}]]
  /\ received' = [received EXCEPT ![o] = <<Msg(r, "init", "init")>>]
  /\ observer' = [observer EXCEPT
                    ![o] = [run |-> r, status |-> "attached",
                            beforeComplete |-> ~CompleteBroadcast(r),
                            afterTeardown |-> CompleteBroadcast(r) /\ ~teardownPending[r],
                            snapshot |-> Snapshot(r)]]
  /\ UNCHANGED <<dbVars, runnerVars, browser, pc, localVars, emitted, historyVars,
                 teardownPending, errorEvents, dbRecords>>

\* req.on('close'): the response is deleted from the set it was added to.
Detach(o) ==
  /\ UNCHANGED auxVars
  /\ observer[o].status = "attached"
  /\ observer' = [observer EXCEPT ![o].status = "closed"]
  /\ runEventStreams' = [runEventStreams EXCEPT ![observer[o].run].obs = @ \ {o}]
  /\ UNCHANGED <<dbVars, runnerVars, browser, pc, localVars, emitted, historyVars,
                 teardownPending, received, errorEvents, dbRecords>>

\* the timer of onComplete: runEventStreams.delete(run.id)
Teardown(r) ==
  /\ UNCHANGED auxVars
  /\ teardownPending[r]
  /\ teardownPending' = [teardownPending EXCEPT ![r] = FALSE]
  /\ runEventStreams' = [runEventStreams EXCEPT ![r] = NoStreams]
  /\ UNCHANGED <<dbVars, runnerVars, browser, pc, localVars, emitted, historyVars,
                 observer, received, errorEvents, dbRecords>>

----------------------------------------------------------------------------
\* routes/runs.ts, POST / and the synchronous head of run().

\* The busy check placed after the resets of run().
RunRejected_ResetsFirst(r) ==
  /\ dbStatus' = [dbStatus EXCEPT ![r] = "pending"]
  /\ pc' = [pc EXCEPT ![r] = "rejected"]
  /\ emitted' = [emitted EXCEPT ![r] = Append(@, "error")]
  /\ shouldStop' = FALSE
  /\ interactionTracker' = [run |-> r, touched |-> FALSE]
  /\ NewStreams(r)
  /\ UNCHANGED <<dbSummary, frictionRows, abandonedEvents, isRunning, browser, localVars,
                 historyVars, errorEvents>>

\* run() called while the runner is busy: it throws before any assignment, the
\* returned promise rejects and the route's .catch broadcasts an error.  The
\* run row stays as createRun wrote it.
RunRejected(r) ==
  /\ dbStatus' = [dbStatus EXCEPT ![r] = "pending"]
  /\ pc' = [pc EXCEPT ![r] = "rejected"]
  /\ emitted' = [emitted EXCEPT ![r] = Append(@, "error")]
  /\ NewStreams(r)
  /\ UNCHANGED <<dbSummary, frictionRows, abandonedEvents, runnerVars, browser, localVars,
                 historyVars, errorEvents>>

\* run() admitted: the flags and the tracker are reset, the row goes to
\* 'running' and browser.launch() is called.
RunAccepted(r, mfp) ==
  /\ isRunning' = TRUE
  /\ shouldStop' = FALSE
  /\ interactionTracker' = [run |-> r, touched |-> FALSE]
  /\ frictionCount' = [frictionCount EXCEPT ![r] = 0]
  /\ maxFrictionPoints' = [maxFrictionPoints EXCEPT ![r] = mfp]
  /\ updateRunStatus(r, "running")
  /\ Ctl(r, "launch", 0, FALSE, "none", abandonedEvents[r], FALSE, FALSE, NoDecision)
  /\ NewStreams(r)
  /\ UNCHANGED <<dbSummary, frictionRows, browser, emitted, stopRequested, stopInfo,
                 observed, errorEvents>>

\* POST /: createRun, then runner.run(run, archetype, callbacks).  Run ids
\* are fresh; they are handed out in order.
PostRun(r) ==
  /\ UNCHANGED auxVars
  /\ dbStatus[r] = "none"
  /\ \A q \in Runs : q < r => dbStatus[q] # "none"
  /\ \E mfp \in 1..MaxThreshold :
       IF isRunning THEN RunRejected(r) ELSE RunAccepted(r, mfp)

\* What a stop() call finds each run doing: kept for the runs in flight, the
\* first call only.
NoteStop(r) ==
  IF pc[r] \in InFlight /\ ~stopInfo[r].called
    THEN [called |-> TRUE, step |-> stepCount[r],
          at |-> IF pc[r] \in StepPhases THEN "inStep"
                 ELSE IF pc[r] \in PostClosePhases THEN "finalizing" ELSE "beforeLoop"]
    ELSE stopInfo[r]

\* POST /:id/stop: 400 unless the row is 'running'; runner.stop() on the
\* shared runner, then the row is set to 'stopped'.
Stop(r) ==
  /\ UNCHANGED auxVars
  /\ dbStatus[r] = "running"
  /\ shouldStop' = TRUE
  /\ updateRunStatus(r, "stopped")
  /\ stopRequested' = [stopRequested EXCEPT ![r] = TRUE]
  /\ stopInfo' = [q \in Runs |-> NoteStop(q)]
  /\ UNCHANGED <<dbSummary, frictionRows, abandonedEvents, isRunning, interactionTracker,
                 browser, pc, localVars, emitted, closeCalled, observed, hubVars,
                 errorEvents>>

----------------------------------------------------------------------------
\* run(), one action per await.

Touch == interactionTracker' = [interactionTracker EXCEPT !.touched = TRUE]

\* await this.browser.launch(viewport)
LaunchDone(r) ==
  /\ UNCHANGED auxVars
  /\ pc[r] = "launch"
  /\ \/ /\ browser' = "open"
        /\ Goto(r, "navigate")
        /\ UNCHANGED observed
     \/ /\ browser' \in {"none", "partial"}
        /\ Raise(r)
        /\ Observe(r, {"raised", "launchFailed"})
  /\ UNCHANGED <<dbStatus, dbSummary, frictionRows, runnerVars, frictionCount,
                 maxFrictionPoints, emitted, statusWrites, stopRequested, stopInfo,
                 hubVars, errorEvents>>

\* await this.browser.navigate(run.url); then navigationHistory.push and the
\* screenshot call of createEventWithScreenshot
NavigateDone(r) ==
  /\ UNCHANGED auxVars
  /\ pc[r] = "navigate"
  /\ \/ /\ Touch
        /\ Goto(r, "navShot")
        /\ UNCHANGED observed
     \/ /\ Raise(r)
        /\ Observe(r, {"raised", "launchFailed"})
        /\ UNCHANGED interactionTracker
  /\ UNCHANGED <<dbStatus, dbSummary, frictionRows, isRunning, shouldStop, browser,
                 frictionCount, maxFrictionPoints, emitted, statusWrites, stopRequested,
                 stopInfo, hubVars, errorEvents>>

\* the screenshot of the navigation event (its failure is caught), the event,
\* then the first evaluation of the loop condition
NavShotDone(r) ==
  /\ UNCHANGED auxVars
  /\ pc[r] = "navShot"
  /\ NextIteration(r)
  /\ Emit(r, <<EventMsg(r, "navigation")>> \o LoopExitMsgs(r))
  /\ UNCHANGED <<dbStatus, dbSummary, frictionRows, runnerVars, browser, frictionCount,
                 maxFrictionPoints, emitted, statusWrites, stopRequested, stopInfo, observed,
                 errorEvents>>

\* await this.browser.getPageState()
PageStateDone(r) ==
  /\ UNCHANGED auxVars
  /\ pc[r] = "pageState"
  /\ \/ Goto(r, "shot64") /\ UNCHANGED observed
     \/ Raise(r) /\ Observe(r, {"raised"})
  /\ UNCHANGED <<dbStatus, dbSummary, frictionRows, runnerVars, browser, frictionCount,
                 maxFrictionPoints, emitted, statusWrites, stopRequested, stopInfo,
                 hubVars, errorEvents>>

\* await this.browser.captureScreenshotBase64(); then decideNextAction is called
Shot64Done(r) ==
  /\ UNCHANGED auxVars
  /\ pc[r] = "shot64"
  /\ \/ Goto(r, "deciding") /\ UNCHANGED observed
     \/ Raise(r) /\ Observe(r, {"raised"})
  /\ UNCHANGED <<dbStatus, dbSummary, frictionRows, runnerVars, browser, frictionCount,
                 maxFrictionPoints, emitted, statusWrites, stopRequested, stopInfo,
                 hubVars, errorEvents>>

\* executeAction throws before any browser call for these decisions.
MissingTarget(d) == d.type \in TargetTypes /\ ~d.target

\* A catch branch that runs the action again.
ExecError_Retries(r, d, fc) ==
  /\ frictionCount' = [frictionCount EXCEPT ![r] = fc + 1]
  /\ errorEvents' = [errorEvents EXCEPT ![r] = @ + 1]
  /\ IF fc + 1 >= maxFrictionPoints[r]
       THEN Break(r, "tooManyErrors", abandonedEvents[r], goalReached[r])
       ELSE GotoWith(r, "acting", [d EXCEPT !.target = TRUE])

\* runner.ts:224-241, the catch branch: an error event, frictionCount++, and
\* the abandon check; otherwise on to the delay.
ExecError(r, d, fc) ==
  /\ frictionCount' = [frictionCount EXCEPT ![r] = fc + 1]
  /\ errorEvents' = [errorEvents EXCEPT ![r] = @ + 1]
  /\ IF fc + 1 >= maxFrictionPoints[r]
       THEN Break(r, "tooManyErrors", abandonedEvents[r], goalReached[r])
       ELSE GotoWith(r, "delay", d)

\* runner.ts:203-241 up to the next await: done, stuck, or executeAction.
\* fc is the friction counter as the friction branch left it.
Dispatch(r, d, fc) ==
  CASE d.type = "done" ->
         /\ Ctl(r, "doneShot", stepCount[r], TRUE, abandonReason[r], abandonedEvents[r],
                threw[r], closeCalled[r], d)
         /\ frictionCount' = [frictionCount EXCEPT ![r] = fc]
         /\ UNCHANGED errorEvents
    [] d.type = "stuck" ->
         /\ Ctl(r, "stuckShot", stepCount[r], goalReached[r], "stuck", abandonedEvents[r],
                threw[r], closeCalled[r], d)
         /\ frictionCount' = [frictionCount EXCEPT ![r] = fc]
         /\ UNCHANGED errorEvents
    [] MissingTarget(d) ->
         \* executeAction throws 'requires target'
         ExecError(r, d, fc)
    [] d.type = "other" ->
         \* no case of the switch matches: executeAction does nothing
         /\ GotoWith(r, "delay", d)
         /\ frictionCount' = [frictionCount EXCEPT ![r] = fc]
         /\ UNCHANGED errorEvents
    [] OTHER ->
         \* browser.click / type / scroll / navigate is called
         /\ GotoWith(r, "acting", d)
         /\ frictionCount' = [frictionCount EXCEPT ![r] = fc]
         /\ UNCHANGED errorEvents

\* The error event of the catch branch, and the ceiling's event when the
\* branch breaks.
ExecErrorMsgs(r, fc) ==
  <<EventMsg(r, "execError")>>
    \o (IF fc + 1 >= maxFrictionPoints[r] THEN CeilingMsgs(r, goalReached[r]) ELSE <<>>)

\* What Dispatch broadcasts before its next await.
DispatchMsgs(r, d, fc) == IF MissingTarget(d) THEN ExecErrorMsgs(r, fc) ELSE <<>>

\* detectInteractionPattern writes the tracker for these decisions.
TouchesTracker(d) ==
  \/ d.type = "scroll"
  \/ d.type \in TargetTypes /\ d.target

ExecTags(d) == IF MissingTarget(d) THEN {"execError"} ELSE {}

DecisionTags(d) ==
  (IF d.friction THEN {"friction"} ELSE ExecTags(d))
    \cup (IF d.type \in {"done", "stuck"} THEN {"doneStuck"} ELSE {})
    \cup (IF d.type = "done" THEN {"decidedDone"} ELSE {})

\* A done decision whose friction brings the counter to the threshold.
ThresholdTags(r, d) ==
  IF d.friction /\ d.type = "done" /\ frictionCount[r] + 1 >= maxFrictionPoints[r]
    THEN {"frictionOverDone"}
    ELSE {}

\* await this.llm.decideNextAction(...): a throw is caught (error event,
\* break); a decision is logged, run through the pattern detector, and either
\* starts the friction branch (frictionCount++, screenshot call) or is
\* dispatched.
DecideDone(r) ==
  /\ UNCHANGED auxVars
  /\ pc[r] = "deciding"
  /\ \/ /\ Break(r, abandonReason[r], abandonedEvents[r], goalReached[r])
        /\ Observe(r, {"oracleFailed"})
        /\ errorEvents' = [errorEvents EXCEPT ![r] = @ + 1]
        /\ Emit(r, <<EventMsg(r, "oracleError")>> \o CeilingMsgs(r, goalReached[r]))
        /\ UNCHANGED <<interactionTracker, frictionCount>>
     \/ \E d \in Decisions, unparseable \in BOOLEAN :
          /\ unparseable => d = ParseFailure
          /\ Observe(r, DecisionTags(d) \cup ThresholdTags(r, d)
                            \cup IF unparseable THEN {"unparseable"} ELSE {})
          /\ IF TouchesTracker(d) THEN Touch ELSE UNCHANGED interactionTracker
          /\ IF d.friction
               THEN /\ frictionCount' = [frictionCount EXCEPT ![r] = @ + 1]
                    /\ GotoWith(r, "frictionShot", d)
                    /\ Emit(r, <<EventMsg(r, "reasoning")>>)
                    /\ UNCHANGED errorEvents
               ELSE /\ Dispatch(r, d, frictionCount[r])
                    /\ Emit(r, <<EventMsg(r, "reasoning")>>
                                  \o DispatchMsgs(r, d, frictionCount[r]))
  /\ UNCHANGED <<dbStatus, dbSummary, frictionRows, isRunning, shouldStop, browser,
                 maxFrictionPoints, emitted, statusWrites, stopRequested, stopInfo>>

\* onFriction for the FrictionPoint, then onEvent for the friction event.
FrictionMsgs(r) == <<Msg(r, "friction", "frictionPoint"), EventMsg(r, "friction")>>

\* The abandon check with > for >=.
ShouldAbandon_Strict(r) == frictionCount[r] > maxFrictionPoints[r]

\* runner.ts:190
ShouldAbandon(r) == frictionCount[r] >= maxFrictionPoints[r]

\* await this.browser.captureScreenshot(frictionScreenshotPath), not guarded:
\* a failure leaves the try block.  Otherwise the FrictionPoint row and the
\* friction event are written, then the abandon check, then the dispatch.
FrictionShotDone(r) ==
  /\ UNCHANGED auxVars
  /\ pc[r] = "frictionShot"
  /\ \/ /\ Raise(r)
        /\ Observe(r, {"raised"})
        /\ UNCHANGED <<frictionRows, frictionCount, hubVars, errorEvents>>
     \/ /\ frictionRows' = [frictionRows EXCEPT ![r] = @ + 1]
        /\ IF ShouldAbandon(r)
             THEN /\ Break(r, "tooMuchFriction",
                           Append(abandonedEvents[r], "tooMuchFriction"), goalReached[r])
                  /\ Emit(r, FrictionMsgs(r) \o <<EventMsg(r, "tooMuchFriction")>>
                                \o CeilingMsgs(r, goalReached[r]))
                  /\ UNCHANGED <<frictionCount, observed, errorEvents>>
             ELSE /\ Dispatch(r, decision[r], frictionCount[r])
                  /\ Emit(r, FrictionMsgs(r)
                                \o DispatchMsgs(r, decision[r], frictionCount[r]))
                  /\ Observe(r, ExecTags(decision[r]))
  /\ UNCHANGED <<dbStatus, dbSummary, runnerVars, browser, maxFrictionPoints,
                 emitted, statusWrites, stopRequested, stopInfo>>

\* the screenshot of the goal_reached event, the event, break
DoneShotDone(r) ==
  /\ UNCHANGED auxVars
  /\ pc[r] = "doneShot"
  /\ Break(r, abandonReason[r], abandonedEvents[r], goalReached[r])
  /\ Emit(r, <<EventMsg(r, "goal_reached")>> \o CeilingMsgs(r, goalReached[r]))
  /\ UNCHANGED <<dbStatus, dbSummary, frictionRows, runnerVars, browser, frictionCount,
                 maxFrictionPoints, emitted, statusWrites, stopRequested, stopInfo, observed,
                 errorEvents>>

\* the screenshot of the abandoned event, the event, break
StuckShotDone(r) ==
  /\ UNCHANGED auxVars
  /\ pc[r] = "stuckShot"
  /\ Break(r, abandonReason[r], Append(abandonedEvents[r], abandonReason[r]),
           goalReached[r])
  /\ Emit(r, <<EventMsg(r, "stuck")>> \o CeilingMsgs(r, goalReached[r]))
  /\ UNCHANGED <<dbStatus, dbSummary, frictionRows, runnerVars, browser, frictionCount,
                 maxFrictionPoints, emitted, statusWrites, stopRequested, stopInfo, observed,
                 errorEvents>>

\* await this.browser.click / type / scroll / navigate inside executeAction
ActDone(r) ==
  /\ UNCHANGED auxVars
  /\ pc[r] = "acting"
  /\ \/ /\ Goto(r, "actShot")
        /\ UNCHANGED <<frictionCount, observed, hubVars, errorEvents>>
     \/ /\ ExecError(r, decision[r], frictionCount[r])
        /\ Emit(r, ExecErrorMsgs(r, frictionCount[r]))
        /\ Observe(r, {"execError"})
  /\ UNCHANGED <<dbStatus, dbSummary, frictionRows, runnerVars, browser,
                 maxFrictionPoints, emitted, statusWrites, stopRequested, stopInfo>>

\* the screenshot of the action's event, the event, then the delay is started
ActShotDone(r) ==
  /\ UNCHANGED auxVars
  /\ pc[r] = "actShot"
  /\ Goto(r, "delay")
  /\ Emit(r, <<EventMsg(r, "action")>>)
  /\ UNCHANGED <<dbStatus, dbSummary, frictionRows, runnerVars, browser, frictionCount,
                 maxFrictionPoints, emitted, statusWrites, stopRequested, stopInfo, observed,
                 errorEvents>>

\* await this.delay(STEP_DELAY_MS), then the loop condition
DelayDone(r) ==
  /\ UNCHANGED auxVars
  /\ pc[r] = "delay"
  /\ NextIteration(r)
  /\ Emit(r, LoopExitMsgs(r))
  /\ UNCHANGED <<dbStatus, dbSummary, frictionRows, runnerVars, browser, frictionCount,
                 maxFrictionPoints, emitted, statusWrites, stopRequested, stopInfo, observed,
                 errorEvents>>

\* await this.browser.close() in the finally block.  When it resolves the
\* runner is freed and generateRecommendations is called; when one of its
\* three closes rejects, the rejection leaves run(): nothing after it in the
\* finally block runs, and the route's .catch broadcasts an error.
CloseDone(r) ==
  /\ UNCHANGED auxVars
  /\ pc[r] = "closing"
  /\ \/ /\ browser' = "none"
        /\ isRunning' = FALSE
        /\ Goto(r, "recommending")
        /\ UNCHANGED <<emitted, observed, hubVars>>
     \/ /\ browser # "none"
        /\ browser' = "partial"
        /\ Goto(r, "aborted")
        /\ emitted' = [emitted EXCEPT ![r] = Append(@, "error")]
        /\ Observe(r, {"closeFailed"})
        /\ Emit(r, <<Msg(r, "error", "runError")>>)
        /\ UNCHANGED isRunning
  /\ UNCHANGED <<dbStatus, dbSummary, frictionRows, shouldStop, interactionTracker,
                 frictionCount, maxFrictionPoints, statusWrites, stopRequested, stopInfo,
                 errorEvents>>

\* await this.llm.generateRecommendations(...), a throw replaced by the
\* generic recommendation; then the summary, the status, onComplete, and, when
\* an exception was in flight, the rejection of run() and the route's .catch.
RecommendDone(r) ==
  /\ UNCHANGED auxVars
  /\ pc[r] = "recommending"
  /\ \E outcome \in RecommendationOutcomes :
       /\ dbSummary' = [dbSummary EXCEPT ![r] = Summary(r, Recommendations(outcome))]
       /\ Observe(r, CASE outcome = "threw" -> {"recommendationsFailed"}
                         [] outcome = "unparseable" -> {"recommendationsUnparseable"}
                         [] OTHER -> {})
  /\ updateRunStatus(r, FinalStatus(r))
  /\ emitted' = [emitted EXCEPT
                   ![r] = IF threw[r] THEN @ \o <<"complete", "error">>
                                      ELSE Append(@, "complete")]
  /\ Goto(r, "done")
  /\ Broadcast(r, CompleteMsgs(r))
  /\ teardownPending' = [teardownPending EXCEPT ![r] = TRUE]
  /\ UNCHANGED <<frictionRows, runnerVars, browser, frictionCount, maxFrictionPoints,
                 stopRequested, stopInfo, errorEvents, dbRecords>>

----------------------------------------------------------------------------
\* The actions that leave stepCount alone ...
Step(r) ==
  \/ PostRun(r)
  \/ Stop(r)
  \/ LaunchDone(r)
  \/ NavigateDone(r)
  \/ PageStateDone(r)
  \/ Shot64Done(r)
  \/ DecideDone(r)
  \/ FrictionShotDone(r)
  \/ DoneShotDone(r)
  \/ StuckShotDone(r)
  \/ ActDone(r)
  \/ ActShotDone(r)
  \/ CloseDone(r)
  \/ RecommendDone(r)

\* ... and the two that evaluate the loop condition.
LoopStep(r) ==
  \/ NavShotDone(r)
  \/ DelayDone(r)

\* One run on the server, over the whole step budget.
Next == Step(1) \/ LoopStep(1)

Spec == Init /\ [][Next]_vars

\* Several runs on the shared runner, followed for SharedSteps loop iterations
\* in all.
RECURSIVE TotalSteps(_)
TotalSteps(n) == IF n = 0 THEN 0 ELSE stepCount[n] + TotalSteps(n - 1)

WithinSharedSteps == TotalSteps(MaxRuns) <= SharedSteps

NextShared ==
  \E r \in Runs :
    \/ Step(r)
    \/ NavShotDone(r) /\ WithinSharedSteps'
    \/ DelayDone(r) /\ WithinSharedSteps'

SpecShared == Init /\ [][NextShared]_vars

\* One run and the observers of its stream, followed for HubSteps loop
\* iterations.
WithinHubSteps == stepCount[1] <= HubSteps

NextHub ==
  \/ Step(1)
  \/ NavShotDone(1) /\ WithinHubSteps'
  \/ DelayDone(1) /\ WithinHubSteps'
  \/ \E o \in Observers : Attach(o, 1)
  \/ \E o \in Observers : Detach(o)
  \/ Teardown(1)

SpecHub == InitHub /\ [][NextHub]_vars

----------------------------------------------------------------------------
\* runner.ts:434-454, calculateWeightedSeverity.

\* severityValues
severityValues(sev) == CASE sev = "low" -> 1 [] sev = "medium" -> 2 [] sev = "high" -> 3

\* archetype.priorities[category] || 3
categoryPriority(cat, prio) == IF prio[cat] = 0 THEN 3 ELSE prio[cat]

\* The weighting with priority 5 only counted as high.
calculateWeightedSeverity_StrictThreshold(base, cat, prio) ==
  IF categoryPriority(cat, prio) > 4 /\ base # "high"
    THEN (IF severityValues(base) = 1 THEN "medium" ELSE "high")
  ELSE IF categoryPriority(cat, prio) <= 2 /\ base # "low"
    THEN (IF severityValues(base) = 3 THEN "medium" ELSE "low")
  ELSE base

\* The weighting with an escalation that wraps around at the top.
calculateWeightedSeverity_Wraps(base, cat, prio) ==
  IF categoryPriority(cat, prio) >= 4
    THEN (CASE base = "low" -> "medium" [] base = "medium" -> "high" [] base = "high" -> "low")
  ELSE IF categoryPriority(cat, prio) <= 2 /\ base # "low"
    THEN (IF severityValues(base) = 3 THEN "medium" ELSE "low")
  ELSE base

\* The weighting with an escalation straight to the top.
calculateWeightedSeverity_TwoSteps(base, cat, prio) ==
  IF categoryPriority(cat, prio) >= 4 /\ base # "high"
    THEN "high"
  ELSE IF categoryPriority(cat, prio) <= 2 /\ base # "low"
    THEN (IF severityValues(base) = 3 THEN "medium" ELSE "low")
  ELSE base

calculateWeightedSeverity(base, cat, prio) ==
  IF categoryPriority(cat, prio) >= 4 /\ base # "high"
    THEN (IF severityValues(base) = 1 THEN "medium" ELSE "high")
  ELSE IF categoryPriority(cat, prio) <= 2 /\ base # "low"
    THEN (IF severityValues(base) = 3 THEN "medium" ELSE "low")
  ELSE base

\* The priority vectors tried: neutral but for one category.
PriorityVectors ==
  {[c \in Categories |-> IF c = k THEN p ELSE 3] : k \in Categories, p \in Priorities}

InitWeigh ==
  /\ ServerInit
  /\ streamClients = FALSE
  /\ NoDetection
  /\ NoFrictionBranch
  /\ NoSynthesis
  /\ baseSeverity \in Severities
  /\ category \in Categories
  /\ priorities \in PriorityVectors
  /\ weightedSeverity = baseSeverity
  /\ weighCount = 0

\* One more application, to the severity the last one returned.
Weigh ==
  /\ weighCount < MaxWeighings
  /\ weightedSeverity' = calculateWeightedSeverity(weightedSeverity, category, priorities)
  /\ weighCount' = weighCount + 1
  /\ UNCHANGED <<serverVars, detectorVars, frictionVars, customVars, baseSeverity,
                 category, priorities, streamClients>>

SpecWeigh == InitWeigh /\ [][Weigh]_vars

----------------------------------------------------------------------------
\* runner.ts:322-429, detectInteractionPattern.

\* runner.ts:28-30
REPEATED_CLICK_THRESHOLD == 2
BACKTRACK_WINDOW_EVENTS == 5
SCROLL_HUNT_THRESHOLD == 3

\* events.filter((e) => e.type is one of types)
OfTypes(evs, types) == SelectSeq(evs, LAMBDA ev : ev.type \in types)

\* seq.slice(-n)
LastN(seq, n) == SubSeq(seq, IF Len(seq) > n THEN Len(seq) - n + 1 ELSE 1, Len(seq))

\* target.toLowerCase().includes('submit'), and the same for one of
\* 'submit', 'continue', 'next'
IncludesSubmit(target) == target = "Submit"
IncludesSubmitWord(target) == target \in {"Submit", "Next"}

\* new Set(urls).size < urls.length
HasDuplicate(seq) == \E i, j \in 1..Len(seq) : i < j /\ seq[i].target = seq[j].target

\* the direction changes among consecutive scroll events
DirectionChanges(seq) == Cardinality({i \in 2..Len(seq) : seq[i].target # seq[i - 1].target})

\* The tracker after the click counting of the call.
AfterClick(trk, d) ==
  IF d.type = "click" /\ d.target # "none"
    THEN [trk EXCEPT !.clickTargets[d.target] = @ + 1]
    ELSE trk

\* A detector that reports a target only from its third click on.
RepeatedClick_ThirdClick(trk, d) ==
  /\ d.type = "click"
  /\ d.target # "none"
  /\ AfterClick(trk, d).clickTargets[d.target] >= REPEATED_CLICK_THRESHOLD + 1

RepeatedClick(trk, d) ==
  /\ d.type = "click"
  /\ d.target # "none"
  /\ AfterClick(trk, d).clickTargets[d.target] >= REPEATED_CLICK_THRESHOLD

\* navigate to a URL of navigationHistory
Revisit(trk, d) ==
  /\ d.type = "navigate"
  /\ d.target # "none"
  /\ \E i \in 1..Len(trk.navigationHistory) : trk.navigationHistory[i] = d.target

\* A tracker that never records the target of a navigate decision.
AfterNavigate_Forgets(trk, d) == trk

\* The tracker after the navigation tracking, when the call goes on.
AfterNavigate(trk, d) ==
  IF d.type = "navigate" /\ d.target # "none"
    THEN [trk EXCEPT !.navigationHistory = Append(@, d.target)]
    ELSE trk

RecentBacktrack(evs) ==
  LET recentNavEvents == LastN(OfTypes(evs, {"navigation"}), BACKTRACK_WINDOW_EVENTS)
  IN Len(recentNavEvents) >= 2 /\ HasDuplicate(recentNavEvents)

AfterScroll(trk, d) ==
  IF d.type = "scroll" THEN [trk EXCEPT !.scrollCount = @ + 1] ELSE trk

ScrollHunting(trk, d, evs) ==
  /\ d.type = "scroll"
  /\ \/ DirectionChanges(LastN(OfTypes(evs, {"scroll"}), 5)) >= 2
     \/ AfterScroll(trk, d).scrollCount >= SCROLL_HUNT_THRESHOLD

AfterType(trk, d) ==
  IF d.type = "type" /\ d.target # "none"
    THEN [trk EXCEPT !.formStarted = TRUE, !.lastFormField = d.target]
    ELSE trk

FormAbandonment(trk, d, evs) ==
  /\ d.type \in {"navigate", "click"}
  /\ AfterType(trk, d).formStarted
  /\ d.target # "none"
  /\ ~IncludesSubmit(d.target)
  /\ Len(LastN(OfTypes(evs, {"type"}), 3)) > 0
  /\ ~\E i \in 1..Len(LastN(evs, 5)) :
        /\ LastN(evs, 5)[i].type = "click"
        /\ IncludesSubmitWord(LastN(evs, 5)[i].target)
  /\ d.type = "navigate"

Hesitation(evs) ==
  /\ Len(LastN(OfTypes(evs, {"reasoning"}), 5)) > 3
  /\ Len(LastN(OfTypes(evs, {"click", "type", "navigate"}), 5)) < 2

ErrorRecovery(evs) ==
  \E i \in 1..Len(LastN(evs, 3)) : LastN(evs, 3)[i].type = "error"

\* A detector that looks for hesitation before form abandonment.
detectInteractionPattern_HesitationFirst(trk, d, evs) ==
  LET t1 == AfterClick(trk, d)
      t2 == AfterNavigate(t1, d)
      t3 == AfterScroll(t2, d)
      t4 == AfterType(t3, d)
  IN IF RepeatedClick(trk, d) THEN [pattern |-> "repeatedClicks", tracker |-> t1]
     ELSE IF Revisit(t1, d) THEN [pattern |-> "backtracking", tracker |-> t1]
     ELSE IF RecentBacktrack(evs) THEN [pattern |-> "backtracking", tracker |-> t2]
     ELSE IF ScrollHunting(t2, d, evs) THEN [pattern |-> "scrollHunting", tracker |-> t3]
     ELSE IF Hesitation(evs) THEN [pattern |-> "hesitation", tracker |-> t4]
     ELSE IF FormAbandonment(t3, d, evs)
       THEN [pattern |-> "formAbandonment", tracker |-> t4]
     ELSE IF ErrorRecovery(evs) THEN [pattern |-> "errorRecovery", tracker |-> t4]
     ELSE [pattern |-> "null", tracker |-> t4]

\* The label the call returns and the tracker it leaves: every return of the
\* function in its order, with the tracker as written up to that return.
detectInteractionPattern(trk, d, evs) ==
  LET t1 == AfterClick(trk, d)
      t2 == AfterNavigate(t1, d)
      t3 == AfterScroll(t2, d)
      t4 == AfterType(t3, d)
  IN IF RepeatedClick(trk, d) THEN [pattern |-> "repeatedClicks", tracker |-> t1]
     ELSE IF Revisit(t1, d) THEN [pattern |-> "backtracking", tracker |-> t1]
     ELSE IF RecentBacktrack(evs) THEN [pattern |-> "backtracking", tracker |-> t2]
     ELSE IF ScrollHunting(t2, d, evs) THEN [pattern |-> "scrollHunting", tracker |-> t3]
     ELSE IF FormAbandonment(t3, d, evs)
       THEN [pattern |-> "formAbandonment", tracker |-> t4]
     ELSE IF Hesitation(evs) THEN [pattern |-> "hesitation", tracker |-> t4]
     ELSE IF ErrorRecovery(evs) THEN [pattern |-> "errorRecovery", tracker |-> t4]
     ELSE [pattern |-> "null", tracker |-> t4]

\* The decisions the detector is called with: action.type and action.target.
DetectorDecisions ==
  {[type |-> "click", target |-> t] : t \in ClickTargets \cup {"none"}}
    \cup {[type |-> "type", target |-> t] : t \in TypeTargets \cup {"none"}}
    \cup {[type |-> "navigate", target |-> t] : t \in NavTargets \cup {"none"}}
    \cup {[type |-> t, target |-> "none"] : t \in {"scroll", "done", "stuck", "other"}}

Event(type, target) == [type |-> type, target |-> target]

\* The event the rest of the step persists for the decision: goal_reached,
\* abandoned, the event of executeAction, or the error event of its catch.
ActionEvents(d, ok) ==
  CASE d.type = "done" -> <<Event("goal_reached", "none")>>
    [] d.type = "stuck" -> <<Event("abandoned", "none")>>
    [] d.type = "other" -> <<>>
    [] d.type \in {"click", "type", "navigate"} /\ d.target = "none" ->
         <<Event("error", "none")>>
    [] ~ok -> <<Event("error", "none")>>
    [] d.type = "scroll" -> <<Event("scroll", "down")>>
    [] d.type = "navigate" -> <<Event("navigation", d.target)>>
    [] OTHER -> <<Event(d.type, d.target)>>

\* A run after its initial navigation: the tracker reset and holding the
\* start URL, the navigation event persisted.
RunStart ==
  [tracker |-> [createFreshTracker EXCEPT !.navigationHistory = <<StartUrl>>],
   events |-> <<Event("navigation", StartUrl)>>,
   decision |-> NoDetectorDecision,
   pattern |-> "null",
   clicks |-> [t \in ClickTargets |-> 0],
   decided |-> <<>>]

\* One loop iteration as the detector sees it: the events read at its start,
\* the decision, the reasoning event, the detector call, a friction event
\* when the oracle flags friction, and the event of the action.
AfterStep(st, d, friction, ok) ==
  [tracker |-> detectInteractionPattern(st.tracker, d, st.events).tracker,
   events |-> st.events \o <<Event("reasoning", "none")>>
                \o (IF friction THEN <<Event("friction", "none")>> ELSE <<>>)
                \o ActionEvents(d, ok),
   decision |-> d,
   pattern |-> detectInteractionPattern(st.tracker, d, st.events).pattern,
   clicks |-> IF d.type = "click" /\ d.target # "none"
                THEN [st.clicks EXCEPT ![d.target] = @ + 1]
                ELSE st.clicks,
   decided |-> Append(st.decided, [type |-> d.type, target |-> d.target,
                                   friction |-> friction, ok |-> ok])]

\* A step of a run's past: the decision, executed without friction.
Past(type, target) ==
  [d |-> [type |-> type, target |-> target], friction |-> FALSE, ok |-> TRUE]

\* The pasts a run is taken up from: none; a return to the start URL, a
\* scroll and four pages not seen before; four steps without an action.
Histories ==
  {<<>>,
   <<Past("navigate", StartUrl), Past("scroll", "none"), Past("navigate", "/a"),
     Past("navigate", "/b"), Past("navigate", "/c"), Past("navigate", "/d")>>,
   <<Past("other", "none"), Past("other", "none"), Past("other", "none"),
     Past("other", "none")>>}

\* The run after the steps of h.
RECURSIVE Replay(_)
Replay(h) ==
  IF h = <<>> THEN RunStart
  ELSE AfterStep(Replay(SubSeq(h, 1, Len(h) - 1)), h[Len(h)].d, h[Len(h)].friction,
                 h[Len(h)].ok)

\* The detector's variables as a record.
DetectorState ==
  [tracker |-> tracker, events |-> events, decision |-> detectorDecision,
   pattern |-> detectedPattern, clicks |-> clicksDecided, decided |-> decided]

InitDetector ==
  /\ ServerInit
  /\ streamClients = FALSE
  /\ NoWeighing
  /\ NoFrictionBranch
  /\ NoSynthesis
  /\ detectorSteps = 0
  /\ \E h \in Histories :
       /\ tracker = Replay(h).tracker
       /\ events = Replay(h).events
       /\ detectorDecision = Replay(h).decision
       /\ detectedPattern = Replay(h).pattern
       /\ clicksDecided = Replay(h).clicks
       /\ decided = Replay(h).decided
  /\ pastDecided = <<>>

\* One more loop iteration.  The loop ends with a done or stuck decision.
DetectorStep ==
  /\ detectorSteps < MaxDetectorSteps
  /\ detectorDecision.type \notin {"done", "stuck"}
  /\ \E d \in DetectorDecisions, friction \in BOOLEAN, ok \in BOOLEAN :
       /\ tracker' = AfterStep(DetectorState, d, friction, ok).tracker
       /\ events' = AfterStep(DetectorState, d, friction, ok).events
       /\ detectorDecision' = d
       /\ detectedPattern' = AfterStep(DetectorState, d, friction, ok).pattern
       /\ clicksDecided' = AfterStep(DetectorState, d, friction, ok).clicks
       /\ decided' = AfterStep(DetectorState, d, friction, ok).decided
  /\ detectorSteps' = detectorSteps + 1
  /\ UNCHANGED <<serverVars, weighVars, frictionVars, customVars, streamClients,
                 pastDecided>>

SpecDetector == InitDetector /\ [][DetectorStep]_vars

\* A run that starts on a runner whose tracker holds trk, with the tracker
\* of the run before kept.
RunStartAfter_KeepsTracker(trk) ==
  [RunStart EXCEPT !.tracker = [trk EXCEPT !.navigationHistory = Append(@, StartUrl)]]

\* A run that starts on a runner whose tracker holds trk: run() assigns a
\* fresh tracker before anything else, pushes the start URL and persists the
\* navigation event under the new run id.
RunStartAfter(trk) == RunStart

\* The run is over and the next run of the same runner has come to its loop.
\* getEventsByRunId reads the events of the new run only.
NextRun ==
  /\ decided # <<>>
  /\ tracker' = RunStartAfter(tracker).tracker
  /\ events' = RunStartAfter(tracker).events
  /\ detectorDecision' = RunStartAfter(tracker).decision
  /\ detectedPattern' = RunStartAfter(tracker).pattern
  /\ clicksDecided' = RunStartAfter(tracker).clicks
  /\ decided' = <<>>
  /\ pastDecided' = pastDecided \o decided
  /\ UNCHANGED <<serverVars, weighVars, frictionVars, customVars, streamClients,
                 detectorSteps>>

\* The first run of a runner, after its initial navigation.
InitRuns ==
  /\ ServerInit
  /\ streamClients = FALSE
  /\ NoWeighing
  /\ NoFrictionBranch
  /\ NoSynthesis
  /\ detectorSteps = 0
  /\ tracker = RunStart.tracker
  /\ events = RunStart.events
  /\ detectorDecision = RunStart.decision
  /\ detectedPattern = RunStart.pattern
  /\ clicksDecided = RunStart.clicks
  /\ decided = RunStart.decided
  /\ pastDecided = <<>>

\* The detector over the successive runs of one runner.
SpecRuns == InitRuns /\ [][DetectorStep \/ NextRun]_vars

----------------------------------------------------------------------------
\* runner.ts:139-188, the friction branch of a step.

\* The patterns the oracle's assessment is tried with, and the labels of the
\* detector it is combined with.
OraclePatterns == {"none", "repeatedClicks", "hesitation"}
DetectorLabels == {"null", "backtracking", "hesitation"}

\* decision.action.frictionAssessment; "none" for a field the oracle omitted
Assessments ==
  [detected : BOOLEAN, pattern : OraclePatterns, severity : Severities \cup {"none"},
   category : Categories \cup {"none"}]

\* The FrictionPoint of runner.ts:147-169: pattern, category and weighted
\* severity.
FrictionPointOf(a, label, prio) ==
  LET cat == IF a.category = "none" THEN "contentClarity" ELSE a.category
  IN [present |-> TRUE,
      pattern |-> IF a.pattern # "none" THEN a.pattern
                    ELSE IF label # "null" THEN label ELSE "none",
      category |-> cat,
      severity |-> calculateWeightedSeverity(
                     IF a.severity = "none" THEN "medium" ELSE a.severity, cat, prio)]

\* A step after the detector call: the decision's assessment, the detector's
\* label and the persona's priorities.
InitFriction ==
  /\ ServerInit
  /\ streamClients = FALSE
  /\ baseSeverity = "medium"
  /\ category = "contentClarity"
  /\ priorities \in PriorityVectors
  /\ weightedSeverity = "medium"
  /\ weighCount = 0
  /\ tracker = createFreshTracker
  /\ events = <<>>
  /\ detectorDecision = NoDetectorDecision
  /\ detectedPattern \in DetectorLabels
  /\ detectorSteps = 0
  /\ clicksDecided = [t \in ClickTargets |-> 0]
  /\ decided = <<>>
  /\ pastDecided = <<>>
  /\ assessment \in Assessments
  /\ frictionStage = "decided"
  /\ frictionPoint = NoFrictionPoint
  /\ frictionSent = NoFrictionPoint
  /\ NoSynthesis

\* if (decision.action.frictionAssessment?.detected): the FrictionPoint is
\* built and the screenshot is awaited; otherwise the branch is skipped.
FrictionCheck ==
  /\ frictionStage = "decided"
  /\ frictionStage' = IF assessment.detected THEN "shot" ELSE "skipped"
  /\ UNCHANGED <<serverVars, weighVars, detectorVars, customVars, streamClients,
                 assessment, frictionPoint, frictionSent>>

\* await this.browser.captureScreenshot(frictionScreenshotPath): a failure
\* leaves the try block; otherwise createFrictionPoint and onFriction.
FrictionRecord ==
  /\ frictionStage = "shot"
  /\ \/ /\ frictionStage' = "raised"
        /\ UNCHANGED <<frictionPoint, frictionSent>>
     \/ /\ frictionStage' = "recorded"
        /\ frictionPoint' = FrictionPointOf(assessment, detectedPattern, priorities)
        /\ frictionSent' = FrictionPointOf(assessment, detectedPattern, priorities)
  /\ UNCHANGED <<serverVars, weighVars, detectorVars, customVars, streamClients,
                 assessment>>

SpecFriction == InitFriction /\ [][FrictionCheck \/ FrictionRecord]_vars

----------------------------------------------------------------------------
\* archetypes.ts:600-663, createCustomArchetype: the priorities.

\* The longest focusAreas list tried.
MaxFocusAreas == 3

\* archetypes.ts:606-607
defaultPriority == 3
focusPriority == 5

\* input.focusAreas: absent, or a list of at most MaxFocusAreas categories.
FocusInputs ==
  {[given |-> FALSE, areas |-> <<>>]}
    \cup {[given |-> TRUE, areas |-> a] :
             a \in UNION {[1..k -> Categories] : k \in 0..MaxFocusAreas}}

\* A forEach whose second visit of an area takes the boost back.
RECURSIVE Boost_Toggles(_, _)
Boost_Toggles(prio, areas) ==
  IF areas = <<>> THEN prio
  ELSE Boost_Toggles([prio EXCEPT ![Head(areas)] =
                        IF @ = focusPriority THEN defaultPriority ELSE focusPriority],
                     Tail(areas))

\* input.focusAreas.forEach((area) => { priorities[area] = focusPriority })
RECURSIVE Boost(_, _)
Boost(prio, areas) ==
  IF areas = <<>> THEN prio
  ELSE Boost([prio EXCEPT ![Head(areas)] = focusPriority], Tail(areas))

\* The priorities of the archetype createCustomArchetype returns.
createCustomPriorities(input) ==
  IF input.given
    THEN Boost([c \in Categories |-> defaultPriority], input.areas)
    ELSE [c \in Categories |-> defaultPriority]

InitCustom ==
  /\ ServerInit
  /\ streamClients = FALSE
  /\ NoWeighing
  /\ NoDetection
  /\ NoFrictionBranch
  /\ focusInput \in FocusInputs
  /\ customPriorities = [c \in Categories |-> 0]

\* createCustomArchetype(custom), routes/runs.ts:70
Synthesize ==
  /\ customPriorities = [c \in Categories |-> 0]
  /\ customPriorities' = createCustomPriorities(focusInput)
  /\ UNCHANGED <<serverVars, weighVars, detectorVars, frictionVars, streamClients,
                 focusInput>>

SpecCustom == InitCustom /\ [][Synthesize]_vars

----------------------------------------------------------------------------
\* run() has returned (resolved or rejected) for run r.
RunReturned(r) == pc[r] \in {"done", "aborted"}

\* The runs that hold the runner (isRunning is theirs).
Holding == {r \in Runs : pc[r] \in InLoopPhases \cup {"aborted"}}

\* C1: over the whole lifecycle of a run, stop endpoint and finalization
\* together, a terminal status is written to its row at most once (so it
\* never goes from one terminal value to another).
C1_TerminalStatusOnce ==
  \A r \in Runs : Len(statusWrites[r]) <= 1

\* C2: the frictionPointCount of a written summary equals the number of
\* FrictionPoint rows of the run.
C2_FrictionCountIsRows ==
  \A r \in Runs :
    dbSummary[r].written => dbSummary[r].frictionPointCount = frictionRows[r]

C4_StopAtLoopBoundary ==
  [][\A r \in Runs :
       /\ (~stopInfo[r].called /\ stopInfo'[r].called) =>
            /\ pc' = pc
            /\ decision' = decision
            /\ browser' = browser
       /\ stopInfo[r].called =>
            /\ stepCount'[r] = stepCount[r]
            /\ pc'[r] = "pageState" => pc[r] = "pageState"]_vars

\* stop() came inside a step below the ceiling; that step went on to its
\* action and its delay, the loop then ended without another iteration.
C4_Witness ==
  \E r \in Runs :
    /\ stopInfo[r].called
    /\ stopInfo[r].at = "inStep"
    /\ stopInfo[r].step = stepCount[r]
    /\ stepCount[r] < MAX_STEPS
    /\ pc[r] = "closing"
    /\ observed[r] = {}
    /\ abandonReason[r] = "none"

\* C5: the status finalization writes is 'stopped' exactly when the stop
\* endpoint was called for this run before, else 'completed' when the goal
\* was reached and 'failed' when not.
C5_StoppedIffRequested ==
  \A r \in Runs :
    pc[r] = "done" =>
      dbStatus[r] = IF stopRequested[r] THEN "stopped"
                    ELSE IF dbSummary[r].goalReached THEN "completed" ELSE "failed"

\* C6: once the friction counter is at the persona's threshold the run is at
\* the friction screenshot of that step or past the loop, and it ends failed
\* (stopped when stop() was called during it) with an abandonReason.
C6_ThresholdEndsRun ==
  \A r \in Runs :
    (pc[r] \in InFlight \cup {"done"} /\ frictionCount[r] >= maxFrictionPoints[r]) =>
      /\ pc[r] \in {"frictionShot"} \cup PostClosePhases
      /\ pc[r] = "done" =>
           /\ dbSummary[r].abandonReason # "none"
           /\ ~stopInfo[r].called => dbStatus[r] = "failed"

\* What C7 promises of a finished run.
EndedAtCeiling(r) ==
  /\ dbSummary[r].stepsCompleted = MAX_STEPS
  /\ dbStatus[r] = "failed"
  /\ dbSummary[r].abandonReason = "maxSteps"
  /\ abandonedEvents[r] = <<"maxSteps">>

C8_StepCeiling ==
  \A r \in Runs :
    /\ stepCount[r] \in 0..MAX_STEPS
    /\ dbSummary[r].written => dbSummary[r].stepsCompleted \in 0..MAX_STEPS

C8_Witness ==
  \E r \in Runs :
    /\ stepCount[r] = MAX_STEPS
    /\ dbSummary[r].written
    /\ dbSummary[r].stepsCompleted = MAX_STEPS

\* C9: a run is past its loop only with browser.close() called, awaits no
\* browser call but close() itself after that, and is finalized only with the
\* browser handles released.
C9_BrowserReleased ==
  \A r \in Runs :
    /\ pc[r] \in PostClosePhases <=> closeCalled[r]
    /\ (pc[r] \in {"recommending", "done"} /\ ~isRunning) => browser = "none"
    /\ dbSummary[r].written => closeCalled[r]

\* an exception raised inside a step, the run finalized after the release
C9_Witness ==
  \E r \in Runs :
    /\ pc[r] = "done"
    /\ threw[r]
    /\ stepCount[r] >= 1
    /\ closeCalled[r]
    /\ browser = "none"

\* C10: whatever fails during finalization, once run() has returned the run
\* has its summary and a terminal status, complete was broadcast and the
\* runner is free.
C10_FinalizationCompletes ==
  \A r \in Runs :
    RunReturned(r) =>
      /\ dbSummary[r].written
      /\ dbStatus[r] \in TerminalStatuses
      /\ \E i \in 1..Len(emitted[r]) : emitted[r][i] = "complete"
      /\ Holding \subseteq {r} => ~isRunning

----------------------------------------------------------------------------
\* The number of messages of a type among those written to observer o.
RECURSIVE CountType(_, _)
CountType(msgs, type) ==
  IF msgs = <<>> THEN 0
  ELSE (IF Head(msgs).type = type THEN 1 ELSE 0) + CountType(Tail(msgs), type)

\* C11: no observer is written more than one complete message; an observer
\* that attached before the complete broadcast of its run and was neither
\* closed nor dropped since has, once complete was broadcast, exactly one; an
\* observer that attached after the teardown has none.
C11_CompleteOnce ==
  \A o \in Observers :
    /\ CountType(received[o], "complete") <= 1
    /\ (/\ observer[o].status = "attached"
        /\ observer[o].beforeComplete
        /\ CompleteBroadcast(observer[o].run)) =>
          CountType(received[o], "complete") = 1
    /\ observer[o].afterTeardown => CountType(received[o], "complete") = 0

\* one observer has its complete message, another came after the teardown
C11_Witness ==
  \E o, q \in Observers :
    /\ observer[o].status = "attached"
    /\ observer[o].beforeComplete
    /\ CountType(received[o], "complete") = 1
    /\ Len(received[o]) >= 4
    /\ observer[q].status = "attached"
    /\ observer[q].afterTeardown
    /\ received[q] = <<Msg(observer[q].run, "init", "init")>>

\* The place of a record among those run() emits in one step.
Rank(kind) ==
  CASE kind \in {"oracleError", "reasoning"} -> 1
    [] kind = "frictionPoint" -> 2
    [] kind = "friction" -> 3
    [] kind = "tooMuchFriction" -> 4
    [] kind \in {"navigation", "goal_reached", "stuck", "action", "execError"} -> 5
    [] kind = "maxSteps" -> 6
    [] kind = "complete" -> 7
    [] kind = "runError" -> 8
    [] OTHER -> 0

\* run() emits m before n.
EmittedBefore(m, n) ==
  \/ m.step < n.step
  \/ m.step = n.step /\ Rank(m.kind) < Rank(n.kind)

\* C12: what an observer was written starts with one init message, no other
\* init follows, and the messages after it are in the order run() emitted
\* them, none of them twice.
C12_InitThenEmissionOrder ==
  \A o \in Observers :
    observer[o].status # "none" =>
      /\ Len(received[o]) >= 1
      /\ received[o][1].type = "init"
      /\ \A i \in 2..Len(received[o]) :
           /\ received[o][i].type \in {"event", "friction", "complete", "error"}
           /\ \A j \in (i + 1)..Len(received[o]) :
                EmittedBefore(received[o][i], received[o][j])

\* an observer with init, events, a friction point and complete
C12_Witness ==
  \E o \in Observers :
    /\ Len(received[o]) >= 7
    /\ received[o][1].type = "init"
    /\ received[o][2].kind = "navigation"
    /\ CountType(received[o], "friction") = 1
    /\ received[o][Len(received[o])].type = "complete"

----------------------------------------------------------------------------
\* The oracle call of some step of run r threw, or its response could not be
\* parsed.
OracleFailed(r) == observed[r] \cap {"oracleFailed", "unparseable"} # {}

\* C13: after a failed or unparseable oracle call the run is at the
\* screenshot of its abandoned event or past the loop (no browser action, no
\* further step); it ends failed unless a stop was requested, and as after a
\* stuck decision: with an abandonReason and an abandoned event.
C13_OracleFailureIsStuck ==
  \A r \in Runs :
    OracleFailed(r) =>
      /\ pc[r] \in {"stuckShot"} \cup PostClosePhases
      /\ pc[r] = "done" =>
           /\ ~stopRequested[r] => dbStatus[r] = "failed"
           /\ dbSummary[r].abandonReason # "none"
           /\ abandonedEvents[r] # <<>>

----------------------------------------------------------------------------
\* The step from s to s' is one in which executeAction raised for run r: the
\* browser call of the action rejected, or the action lacked its target.
ExecutionRaised(r) ==
  \/ pc[r] = "acting" /\ pc'[r] \notin {"acting", "actShot"}
  \/ /\ pc[r] \in {"deciding", "frictionShot"}
     /\ errorEvents'[r] # errorEvents[r]
     /\ "oracleFailed" \notin observed'[r]

\* The number of messages for a record kind among those written to an observer.
RECURSIVE CountKind(_, _)
CountKind(msgs, kind) ==
  IF msgs = <<>> THEN 0
  ELSE (IF Head(msgs).kind = kind THEN 1 ELSE 0) + CountKind(Tail(msgs), kind)

\* What C14 says of such a step, but for where the run goes: one more error
\* event, written once to every observer that stays attached, the friction
\* counter up by one, the action not called again.
ExecutionErrorRecorded(r) ==
  /\ errorEvents'[r] = errorEvents[r] + 1
  /\ frictionCount'[r] = frictionCount[r] + 1
  /\ pc'[r] \notin {"acting", "actShot"}
  /\ \A o \in runEventStreams'[r].obs :
       CountKind(received'[o], "execError") = CountKind(received[o], "execError") + 1

----------------------------------------------------------------------------
\* browser.launch() or the initial browser.navigate() of run r rejected.
LaunchFailed(r) == "launchFailed" \in observed[r]

\* C15: after a failed launch or initial navigation the run takes no step and
\* is in its finally block; once run() has returned, the browser is released,
\* the summary is written with zero steps, complete was broadcast, and the
\* status is failed unless a stop was requested.
C15_LaunchFailureFinalizes ==
  \A r \in Runs :
    LaunchFailed(r) =>
      /\ stepCount[r] = 0
      /\ pc[r] \in PostClosePhases
      /\ RunReturned(r) =>
           /\ browser = "none"
           /\ dbSummary[r].written
           /\ dbSummary[r].stepsCompleted = 0
           /\ CompleteBroadcast(r)
           /\ ~stopRequested[r] => dbStatus[r] = "failed"
----------------------------------------------------------------------------
\* The rule of C16, as a table.
StatedWeight(base, p) ==
  CASE p \in {4, 5} /\ base = "low" -> "medium"
    [] p \in {4, 5} /\ base = "medium" -> "high"
    [] p \in {1, 2} /\ base = "high" -> "medium"
    [] p \in {1, 2} /\ base = "medium" -> "low"
    [] OTHER -> base

\* C16: one application of the weighting to a base severity returns what the
\* stated rule gives for the priority of the category.
C16_WeightingRule ==
  weighCount = 1 =>
    weightedSeverity = StatedWeight(baseSeverity, priorities[category])

\* weight(low, 5) = medium
C16_Witness ==
  /\ weighCount = 1
  /\ baseSeverity = "low"
  /\ priorities[category] = 5
  /\ weightedSeverity = "medium"

\* C17 as stated: applying the weighting again to its own result, with the
\* same priority, returns that result.
C17_Original ==
  weighCount >= 1 =>
    calculateWeightedSeverity(weightedSeverity, category, priorities) = weightedSeverity

\* C17, amended: a second application moves low weighted with priority 4 or 5
\* on to high and high weighted with priority 1 or 2 on to low, and changes
\* nothing otherwise; from the second application on the result is fixed.
C17_FixedFromSecondApplication ==
  /\ weighCount = 1 =>
       calculateWeightedSeverity(weightedSeverity, category, priorities) =
         (IF baseSeverity = "low" /\ priorities[category] >= 4 THEN "high"
          ELSE IF baseSeverity = "high" /\ priorities[category] <= 2 THEN "low"
          ELSE weightedSeverity)
  /\ weighCount >= 2 =>
       calculateWeightedSeverity(weightedSeverity, category, priorities) = weightedSeverity

\* low weighted twice with priority 5 is high
C17_Witness ==
  /\ weighCount = 2
  /\ baseSeverity = "low"
  /\ priorities[category] = 5
  /\ weightedSeverity = "high"

\* C18: one application with priority 4 or 5 never returns less than the base
\* severity, with priority 1 or 2 never more, and never more than one step
\* away from it.
C18_WeightingDirection ==
  weighCount = 1 =>
    LET b == severityValues(baseSeverity)
        w == severityValues(weightedSeverity)
    IN /\ priorities[category] >= 4 => w >= b
       /\ priorities[category] <= 2 => w <= b
       /\ w - b \in {-1, 0, 1}

\* weight(high, 1) = medium
C18_Witness ==
  /\ weighCount = 1
  /\ baseSeverity = "high"
  /\ priorities[category] = 1
  /\ weightedSeverity = "medium"
----------------------------------------------------------------------------
\* C19: when the last detector call was for a click on a target, it returned
\* repeatedClicks if that click was the second or a later one decided on the
\* target in the run, and did not return repeatedClicks if it was the first.
C19_RepeatedClicks ==
  (detectorDecision.type = "click" /\ detectorDecision.target # "none") =>
    (detectedPattern = "repeatedClicks" <=> clicksDecided[detectorDecision.target] >= 2)

\* a second click on a target, not consecutive to the first
C19_Witness ==
  /\ detectorSteps = 3
  /\ detectorDecision = [type |-> "click", target |-> "Submit"]
  /\ clicksDecided["Submit"] = 2
  /\ clicksDecided["Menu"] = 1
  /\ \E i, j \in 1..Len(events) :
       /\ i < j
       /\ events[i] = Event("click", "Submit")
       /\ events[j] = Event("click", "Menu")
       /\ events[Len(events)] = Event("click", "Submit")
  /\ detectedPattern = "repeatedClicks"
----------------------------------------------------------------------------
\* C20: when the recommendation call of run r threw, or its response could
\* not be parsed, run() has finished as it does otherwise: the summary is
\* written from the run's counters with one generic recommendation, the
\* status is the one finalization computes, and complete was broadcast.
C20_RecommendationFallback ==
  \A r \in Runs :
    observed[r] \cap {"recommendationsFailed", "recommendationsUnparseable"} # {} =>
      /\ pc[r] = "done"
      /\ dbSummary[r] = Summary(r, [generic |-> TRUE, count |-> 1])
      /\ dbStatus[r] = FinalStatus(r)
      /\ CompleteBroadcast(r)

\* the call threw at the end of a run that reached its goal
C20_Witness ==
  \E r \in Runs :
    /\ "recommendationsFailed" \in observed[r]
    /\ dbSummary[r].recommendations = [generic |-> TRUE, count |-> 1]
    /\ dbSummary[r].goalReached
    /\ dbStatus[r] = "completed"
    /\ emitted[r] = <<"complete">>
----------------------------------------------------------------------------
\* What a step writes to observer o.
Delivered(o) == SubSeq(received'[o], Len(received[o]) + 1, Len(received'[o]))

\* C21: no observer is written a message twice; an observer whose write
\* failed is out of every set and is written nothing any more; in the step
\* in which the write to o fails, o is taken out of its run's set, every
\* other observer of the run that stays attached is written what o was
\* written and the messages o lost, and no exception reaches run().
C21_BestEffortAtMostOnce ==
  /\ [](\A o \in Observers :
         \A i, j \in 1..Len(received[o]) : i < j => received[o][i] # received[o][j])
  /\ [][\A o \in Observers :
          /\ observer[o].status = "dropped" =>
               /\ received'[o] = received[o]
               /\ \A r \in Runs : o \notin runEventStreams'[r].obs
          /\ (observer[o].status = "attached" /\ observer'[o].status = "dropped") =>
               /\ o \notin runEventStreams'[observer[o].run].obs
               /\ threw'[observer[o].run] = threw[observer[o].run]
               /\ \A q \in runEventStreams'[observer[o].run].obs :
                    /\ Len(Delivered(q)) > Len(Delivered(o))
                    /\ SubSeq(Delivered(q), 1, Len(Delivered(o))) = Delivered(o)]_vars

\* a write to o failed after some messages; q got every message and the
\* run completed
C21_Witness ==
  \E o, q \in Observers :
    /\ observer[o].status = "dropped"
    /\ observer[q].status = "attached"
    /\ observer[o].run = observer[q].run
    /\ Len(received[o]) >= 3
    /\ Len(received[q]) > Len(received[o])
    /\ SubSeq(received[q], 2, Len(received[o])) = Tail(received[o])
    /\ received[q][Len(received[q])].type = "complete"
    /\ dbStatus[observer[o].run] = "completed"
----------------------------------------------------------------------------
\* The timer that onComplete started for run r has fired.
TornDown(r) == CompleteBroadcast(r) /\ ~teardownPending[r]

\* C22: once the timer started at the complete broadcast of a run has fired,
\* the map of the hub has no observer set for the run, in that state and in
\* every later one.
C22_HubTornDown ==
  \A r \in Runs : TornDown(r) => ~runEventStreams[r].present
----------------------------------------------------------------------------
\* C23: a step that is neither a step of run r nor a stop request for r
\* leaves the status r would be finalized with as it is, and a stop() call
\* finds in flight only a run the stop was requested for.
C23_NoInterference ==
  [][\A r \in Runs :
       /\ (/\ pc[r] \in InFlight
           /\ pc'[r] = pc[r]
           /\ stopRequested'[r] = stopRequested[r]) => FinalStatus(r)' = FinalStatus(r)
       /\ (stopInfo'[r].called /\ ~stopInfo[r].called) => stopRequested'[r]]_vars
----------------------------------------------------------------------------
\* C24: from a state in which the row of run r has a terminal status, no
\* step adds a friction point or an event to the run (its error and
\* abandoned events, its records as the stream reads them), changes its
\* summary, or writes status and completed_at again.
C24_FrozenOnceTerminal ==
  [][\A r \in Runs :
       dbStatus[r] \in TerminalStatuses =>
         /\ frictionRows'[r] = frictionRows[r]
         /\ errorEvents'[r] = errorEvents[r]
         /\ abandonedEvents'[r] = abandonedEvents[r]
         /\ dbRecords'[r] = dbRecords[r]
         /\ dbSummary'[r] = dbSummary[r]
         /\ statusWrites'[r] = statusWrites[r]]_vars
----------------------------------------------------------------------------
\* C25: among the complete and error broadcasts of a run complete is the
\* last one, no observer is written anything after a complete message, and
\* once complete was broadcast no record of the run is inserted (and so none
\* is broadcast).
C25_CompleteIsLast ==
  /\ [](\A r \in Runs : \A i \in 1..Len(emitted[r]) :
          emitted[r][i] = "complete" => i = Len(emitted[r]))
  /\ [](\A o \in Observers : \A i \in 1..Len(received[o]) :
          received[o][i].type = "complete" => i = Len(received[o]))
  /\ [][\A r \in Runs : CompleteBroadcast(r) => dbRecords'[r] = dbRecords[r]]_vars
----------------------------------------------------------------------------
\* The events and friction points among the messages written to an observer
\* after its init message.
RecordsWritten(o) ==
  LET IsRecord(m) == m.type \in {"event", "friction"}
  IN SelectSeq(Tail(received[o]), IsRecord)

\* C26: for an observer that attached before the complete broadcast of its
\* run and whose stream neither failed nor was closed, the records of its
\* init snapshot followed by the records it was written since are the
\* records of the run: each of them once, none missing.
C26_SnapshotThenBroadcasts ==
  \A o \in Observers :
    (observer[o].status = "attached" /\ observer[o].beforeComplete) =>
      observer[o].snapshot \o RecordsWritten(o) = dbRecords[observer[o].run]

\* an observer that attached after the friction point of a step and was
\* written the record that followed and complete
C26_Witness ==
  \E o \in Observers :
    /\ observer[o].status = "attached"
    /\ observer[o].beforeComplete
    /\ \E i \in 1..Len(observer[o].snapshot) : observer[o].snapshot[i].type = "friction"
    /\ Len(observer[o].snapshot) >= 4
    /\ Len(RecordsWritten(o)) >= 1
    /\ received[o][Len(received[o])].type = "complete"
    /\ observer[o].snapshot \o RecordsWritten(o) = dbRecords[observer[o].run]
    /\ pc[observer[o].run] = "done"
----------------------------------------------------------------------------
\* C27: a run with a row either has a terminal status or is still in
\* flight, that is, has an await of run() to come back from.  (A run that is
\* not in flight takes no step any more, so this is what 'eventually
\* terminal' comes to when every awaited call returns.)
C27_EveryRunEnds ==
  \A r \in Runs :
    dbStatus[r] # "none" => dbStatus[r] \in TerminalStatuses \/ pc[r] \in InFlight
----------------------------------------------------------------------------
\* C28: a run has at most one abandoned event, and the abandonReason of its
\* summary is the reason of that event, the first terminal condition met.
C28_OneAbandonReason ==
  \A r \in Runs :
    /\ Len(abandonedEvents[r]) <= 1
    /\ (dbSummary[r].written /\ abandonedEvents[r] # <<>>) =>
         dbSummary[r].abandonReason = abandonedEvents[r][1]
----------------------------------------------------------------------------
\* C29: a run finalized with status failed has an abandonReason in its
\* summary.
C29_FailedHasReason ==
  \A r \in Runs :
    (dbSummary[r].written /\ dbStatus[r] = "failed") =>
      dbSummary[r].abandonReason # "none"
----------------------------------------------------------------------------
\* C30: the friction counter of a run never exceeds the persona's
\* maxFrictionPoints, and neither does the frictionPointCount of its summary.
C30_FrictionCountBounded ==
  \A r \in Runs :
    /\ frictionCount[r] <= maxFrictionPoints[r]
    /\ dbSummary[r].written => dbSummary[r].frictionPointCount <= maxFrictionPoints[r]

\* the first step flags friction and then fails to execute its action, which
\* brings the counter to a threshold of 2
C30_Witness ==
  \E r \in Runs :
    /\ maxFrictionPoints[r] = 2
    /\ stepCount[r] = 1
    /\ frictionRows[r] = 1
    /\ errorEvents[r] = 1
    /\ {"friction", "execError"} \subseteq observed[r]
    /\ dbSummary[r].written
    /\ dbSummary[r].frictionPointCount = 2
----------------------------------------------------------------------------
\* C31: the oracle decides nothing after a done decision; and in a finalized
\* run goalReached is set only when the run's last decision was done,
\* goalReached comes with no abandonReason and with status completed or
\* stopped, and status completed comes with goalReached.
C31_SummaryAgreesWithStatus ==
  \A r \in Runs :
    /\ "decidedDone" \in observed[r] => pc[r] \notin {"pageState", "shot64", "deciding"}
    /\ pc[r] = "done" =>
         /\ dbSummary[r].goalReached => "decidedDone" \in observed[r]
         /\ dbSummary[r].goalReached =>
              /\ dbSummary[r].abandonReason = "none"
              /\ dbStatus[r] \in {"completed", "stopped"}
         /\ dbStatus[r] = "completed" => dbSummary[r].goalReached

\* a run that reached its goal in step 50, after a step with an execution
\* error, and was finalized completed
C31_Witness ==
  \E r \in Runs :
    /\ pc[r] = "done"
    /\ dbSummary[r].goalReached
    /\ dbSummary[r].stepsCompleted = MAX_STEPS
    /\ dbSummary[r].frictionPointCount = 1
    /\ dbSummary[r].abandonReason = "none"
    /\ dbStatus[r] = "completed"
----------------------------------------------------------------------------
\* The labels in the order of their checks.
PatternOrder ==
  <<"repeatedClicks", "backtracking", "scrollHunting", "formAbandonment", "hesitation",
    "errorRecovery">>

\* The condition of a label, for the tracker and the events a call starts
\* with.
Matches(label, trk, d, evs) ==
  CASE label = "repeatedClicks" -> RepeatedClick(trk, d)
    [] label = "backtracking" -> Revisit(trk, d) \/ RecentBacktrack(evs)
    [] label = "scrollHunting" -> ScrollHunting(trk, d, evs)
    [] label = "formAbandonment" -> FormAbandonment(trk, d, evs)
    [] label = "hesitation" -> Hesitation(evs)
    [] label = "errorRecovery" -> ErrorRecovery(evs)

FirstMatch(trk, d, evs) ==
  IF \E i \in 1..Len(PatternOrder) : Matches(PatternOrder[i], trk, d, evs)
    THEN PatternOrder[CHOOSE i \in 1..Len(PatternOrder) :
                        /\ Matches(PatternOrder[i], trk, d, evs)
                        /\ \A j \in 1..(i - 1) : ~Matches(PatternOrder[j], trk, d, evs)]
    ELSE "null"

\* C32: every call returns one label or none: the first label in the order
\* repeatedClicks, backtracking, scrollHunting, formAbandonment, hesitation,
\* errorRecovery whose condition holds for the tracker, the decision and the
\* events of the call, and none exactly when no condition holds.
C32_FirstMatchWins ==
  [][detectedPattern' = FirstMatch(tracker, detectorDecision', events)]_vars

\* a scroll that is the third of the run, decided after four steps without
\* an action: scrollHunting and hesitation both match, scrollHunting is
\* returned
C32_Witness ==
  /\ detectedPattern = "scrollHunting"
  /\ detectorDecision.type = "scroll"
  /\ tracker.scrollCount = 3
  /\ Len(OfTypes(events, {"reasoning"})) >= 5
  /\ OfTypes(events, {"click", "type"}) = <<>>
----------------------------------------------------------------------------
\* The decisions of a type among those of the run.
DecidedOfType(ds, type) == SelectSeq(ds, LAMBDA x : x.type = type)

\* C33: in a call with a scroll decision in which neither repeatedClicks nor
\* backtracking matches, scrollHunting is returned exactly when the last 5
\* scroll events change direction at least twice or the scrolls decided in
\* the run, this one included, are at least 3.
C33_ScrollHunting ==
  [][(/\ detectorDecision'.type = "scroll"
      /\ ~Matches("repeatedClicks", tracker, detectorDecision', events)
      /\ ~Matches("backtracking", tracker, detectorDecision', events)) =>
       (detectedPattern' = "scrollHunting" <=>
          \/ DirectionChanges(LastN(OfTypes(events, {"scroll"}), 5)) >= 2
          \/ Len(DecidedOfType(decided', "scroll")) >= SCROLL_HUNT_THRESHOLD)]_vars
----------------------------------------------------------------------------
\* C34: in a call in which none of repeatedClicks, backtracking,
\* scrollHunting and formAbandonment matches, hesitation is returned exactly
\* when, among the last 5 events of the history, more than 3 are reasoning
\* events and fewer than 2 are click, type or navigate events.
C34_HesitationWindow ==
  [][(\A i \in 1..4 : ~Matches(PatternOrder[i], tracker, detectorDecision', events)) =>
       (detectedPattern' = "hesitation" <=>
          /\ Len(OfTypes(LastN(events, 5), {"reasoning"})) > 3
          /\ Len(OfTypes(LastN(events, 5), {"click", "type", "navigate"})) < 2)]_vars
----------------------------------------------------------------------------
\* C35: in a call in which none of repeatedClicks, backtracking and
\* scrollHunting matches, formAbandonment is returned exactly when a type
\* action has started a form earlier in the run, the decision is a navigate
\* to a target without submit, continue or next, a type event is among the
\* last 3 events of the history, and no click on a target with one of those
\* words is among the last 5 events.
C35_FormAbandonment ==
  [][(\A i \in 1..3 : ~Matches(PatternOrder[i], tracker, detectorDecision', events)) =>
       (detectedPattern' = "formAbandonment" <=>
          /\ tracker.formStarted
          /\ detectorDecision'.type = "navigate"
          /\ detectorDecision'.target # "none"
          /\ ~IncludesSubmitWord(detectorDecision'.target)
          /\ OfTypes(LastN(events, 3), {"type"}) # <<>>
          /\ ~\E i \in 1..Len(LastN(events, 5)) :
                /\ LastN(events, 5)[i].type = "click"
                /\ IncludesSubmitWord(LastN(events, 5)[i].target))]_vars
----------------------------------------------------------------------------
\* The URLs the browser has loaded in the run: those of its navigation
\* events, the initial one included.
VisitedUrls(evs) ==
  {evs[i].target : i \in {j \in 1..Len(evs) : evs[j].type = "navigation"}}

\* The start URL and the targets of the navigate decisions of the run,
\* executed or not.
NavigatedTo(ds) ==
  {StartUrl} \cup
    {ds[i].target : i \in {j \in 1..Len(ds) : ds[j].type = "navigate" /\ ds[j].target # "none"}}

----------------------------------------------------------------------------
\* C37: when the friction branch of a step is over, a FrictionPoint has been
\* persisted and handed to the broadcast exactly when the decision's
\* assessment has friction detected; its pattern is the oracle's when given,
\* otherwise the detector's label, otherwise absent; its severity is the
\* weighting of the oracle's severity (medium when omitted) with the
\* persona's priority for its category.
C37_FrictionPointRecorded ==
  frictionStage \in {"skipped", "raised", "recorded"} =>
    /\ frictionPoint.present <=> assessment.detected
    /\ frictionSent = frictionPoint
    /\ frictionPoint.present =>
         /\ frictionPoint.pattern =
              (IF assessment.pattern # "none" THEN assessment.pattern
                 ELSE IF detectedPattern # "null" THEN detectedPattern ELSE "none")
         /\ frictionPoint.severity =
              calculateWeightedSeverity(
                IF assessment.severity = "none" THEN "medium" ELSE assessment.severity,
                frictionPoint.category, priorities)
----------------------------------------------------------------------------
\* C38: after a step whose decision is done and whose friction brings the
\* counter to the persona's threshold, the run produces no goal_reached
\* event and no browser action, never sets goalReached, and is finalized
\* failed with the too-much-friction reason and goalReached false.
C38_AbandonBeforeDone ==
  \A r \in Runs :
    "frictionOverDone" \in observed[r] =>
      /\ pc[r] \notin {"doneShot", "acting"}
      /\ ~goalReached[r]
      /\ pc[r] = "done" =>
           /\ dbStatus[r] = "failed"
           /\ dbSummary[r].written
           /\ dbSummary[r].abandonReason = "tooMuchFriction"
           /\ ~dbSummary[r].goalReached
----------------------------------------------------------------------------
\* The run that made the decisions ds from its start, alone on its runner.
RECURSIVE RunOf(_)
RunOf(ds) ==
  IF ds = <<>> THEN RunStart
  ELSE AfterStep(RunOf(SubSeq(ds, 1, Len(ds) - 1)),
                 [type |-> ds[Len(ds)].type, target |-> ds[Len(ds)].target],
                 ds[Len(ds)].friction, ds[Len(ds)].ok)

\* C39: whatever the earlier runs of the runner did, the tracker and the
\* label of a run are those of a run that made the same decisions from an
\* empty tracker holding only its start URL: no click counted, no scroll
\* counted, no form started.
C39_TrackerRunScoped ==
  /\ tracker = RunOf(decided).tracker
  /\ detectedPattern = RunOf(decided).pattern
  /\ decided = <<>> =>
       /\ \A t \in ClickTargets : tracker.clickTargets[t] = 0
       /\ tracker.navigationHistory = <<StartUrl>>
       /\ tracker.scrollCount = 0
       /\ ~tracker.formStarted

\* the first click on Submit of a run, not labelled, on a runner whose
\* earlier run had clicked Submit too
C39_Witness ==
  /\ \E i \in 1..Len(pastDecided) :
       pastDecided[i].type = "click" /\ pastDecided[i].target = "Submit"
  /\ Len(decided) = 1
  /\ detectorDecision = [type |-> "click", target |-> "Submit"]
  /\ tracker.clickTargets["Submit"] = 1
  /\ detectedPattern = "null"
----------------------------------------------------------------------------
\* C40: the priorities of a synthesized persona give each of the six
\* categories 5 when focusAreas lists it and 3 otherwise, and every input
\* that lists the same categories, in any order and any number of times,
\* gets the same priorities.
C40_FocusAreasBoosted ==
  customPriorities # [c \in Categories |-> 0] =>
    /\ \A c \in Categories :
         customPriorities[c] =
           IF \E i \in 1..Len(focusInput.areas) : focusInput.areas[i] = c THEN 5 ELSE 3
    /\ \A other \in FocusInputs :
         {other.areas[i] : i \in 1..Len(other.areas)}
             = {focusInput.areas[i] : i \in 1..Len(focusInput.areas)}
           => createCustomPriorities(other) = customPriorities

\* forms listed twice around navigation: forms and navigation at 5, the
\* other four at 3
C40_Witness ==
  /\ focusInput = [given |-> TRUE, areas |-> <<"forms", "navigation", "forms">>]
  /\ customPriorities["forms"] = 5
  /\ customPriorities["navigation"] = 5
  /\ customPriorities["performance"] = 3

=============================================================================
